---- MODULE Spec2Model ----
(***************************************************************************)
(* Acadrive backend (src/backend/main.py, src/backend/database.py).        *)
(*                                                                         *)
(* State: the uploads directory (UPLOADS_DIR), the "files" table           *)
(* (FileRecord rows), the upload_file coroutines in flight and the last    *)
(* response of a query endpoint.  Strings are sequences of one-character   *)
(* strings, so that filtering, splitting, suffix tests and LIKE matching   *)
(* are computed character by character as the code computes them.          *)
(*                                                                         *)
(* upload_file is an async handler: other handlers run only at its awaits  *)
(* (aiofiles.open, out_file.write, leaving the async with block).  One     *)
(* action models each stretch of code between two awaits.                  *)
(***************************************************************************)
EXTENDS Integers, Sequences, FiniteSets, TLC

VARIABLES
    uploads,    \* u -> the upload_file call u: position, arguments, locals, response
    fs,         \* name -> content of the object of that name in UPLOADS_DIR
    records,    \* the rows of table "files", in insertion order
    resp        \* the response of the last query endpoint call

vars == <<uploads, fs, records, resp>>

--------------------------------------------------------------------------
(* Bounds *)

NumUploads == 3          \* upload_file calls in one behaviour
NumConcurrent == 2       \* upload_file calls in one behaviour of the concurrent specification

--------------------------------------------------------------------------
(* Characters and strings *)

LowerLetters == <<"a","b","c","d","e","f","g","h","i","j","k","l","m",
                  "n","o","p","q","r","s","t","u","v","w","x","y","z">>
UpperLetters == <<"A","B","C","D","E","F","G","H","I","J","K","L","M",
                  "N","O","P","Q","R","S","T","U","V","W","X","Y","Z">>
Digits == <<"0","1","2","3","4","5","6","7","8","9">>

Range(s) == {s[i] : i \in DOMAIN s}

\* str.isalnum() of one character
isalnum(c) == c \in Range(LowerLetters) \cup Range(UpperLetters) \cup Range(Digits)

\* str.isspace() of one character
isspace(c) == c \in {" ", "\t", "\n"}

\* str.lower() of one character
lower_char(c) ==
    IF c \in Range(UpperLetters)
    THEN LowerLetters[CHOOSE i \in DOMAIN UpperLetters : UpperLetters[i] = c]
    ELSE c

\* str.lower()
lower(s) == [i \in DOMAIN s |-> lower_char(s[i])]

\* str.rstrip(): drop trailing whitespace
RECURSIVE rstrip(_)
rstrip(s) ==
    IF s # <<>> /\ isspace(s[Len(s)]) THEN rstrip(SubSeq(s, 1, Len(s) - 1)) ELSE s

\* str.endswith(suffix)
endswith(s, suffix) ==
    /\ Len(suffix) <= Len(s)
    /\ SubSeq(s, Len(s) - Len(suffix) + 1, Len(s)) = suffix

\* str.rsplit('.', 1): split at the last dot, one part when there is no dot
rsplit_dot(s) ==
    LET dots == {i \in DOMAIN s : s[i] = "."}
    IN  IF dots = {} THEN <<s>>
        ELSE LET i == CHOOSE d \in dots : \A e \in dots : e <= d
             IN  <<SubSeq(s, 1, i - 1), SubSeq(s, i + 1, Len(s))>>

\* str(counter) inside the f-strings: decimal digits of a positive integer
RECURSIVE int_to_str(_)
int_to_str(n) ==
    IF n < 10 THEN <<Digits[n + 1]>>
    ELSE int_to_str(n \div 10) \o <<Digits[(n % 10) + 1]>>

--------------------------------------------------------------------------
(* upload_file, lines 58-89: validation, safe filename, duplicate handling *)

max_size == 50 * 1024 * 1024

\* mutant: a character that is not kept is replaced by an underscore
safe_chars_underscore(filename) ==
    rstrip([i \in DOMAIN filename |->
              IF isalnum(filename[i]) \/ filename[i] \in {" ", "-", "_", "."}
              THEN filename[i] ELSE "_"])

\* line 72: keep alphanumerics, space, hyphen, underscore and dot, then rstrip
safe_chars(filename) ==
    rstrip(SelectSeq(filename, LAMBDA c : isalnum(c) \/ c \in {" ", "-", "_", "."}))

\* mutant: lines 73-74 missing, no fallback name
safe_filename_no_fallback(filename) == safe_chars(filename)

\* lines 72-74
safe_filename(filename) ==
    IF safe_chars(filename) = <<>>
    THEN <<"u","p","l","o","a","d","e","d","_","f","i","l","e">>
    ELSE safe_chars(filename)

\* (UPLOADS_DIR / name).exists(): an object of that name, or the directory
\* itself ("." joined to a path is the path) or its parent ("..")
exists(name, dir) == name \in DOMAIN dir \/ name \in {<<".">>, <<".", ".">>}

\* lines 82-85: the candidate tried with this counter
new_filename(safe, counter) ==
    LET name_parts == rsplit_dot(safe)
    IN  IF Len(name_parts) = 2
        THEN name_parts[1] \o <<"_">> \o int_to_str(counter) \o <<".">> \o name_parts[2]
        ELSE safe \o <<"_">> \o int_to_str(counter)

\* lines 81-87: the while loop, from a candidate and the counter to use next;
\* yields the final name and the number of exists() probes made
RECURSIVE probe_loop(_, _, _, _, _)
probe_loop(safe, file_path, counter, probes, dir) ==
    IF exists(file_path, dir)
    THEN probe_loop(safe, new_filename(safe, counter), counter + 1, probes + 1, dir)
    ELSE [name |-> file_path, probes |-> probes + 1]

\* mutant: the counter of line 79 starts at 0
final_filename_counter_from_zero(safe, dir) == probe_loop(safe, safe, 0, 0, dir)

\* lines 76-89
final_filename(safe, dir) == probe_loop(safe, safe, 1, 0, dir)

\* mutant: the suffix tests without lower()
file_type_case_sensitive(final) ==
    LET l == final
    IN  IF endswith(l, <<".","p","d","f">>) THEN "pdf"
        ELSE IF \/ endswith(l, <<".","j","p","g">>)
                \/ endswith(l, <<".","j","p","e","g">>)
                \/ endswith(l, <<".","p","n","g">>)
                \/ endswith(l, <<".","g","i","f">>) THEN "image"
        ELSE IF \/ endswith(l, <<".","d","o","c">>)
                \/ endswith(l, <<".","d","o","c","x">>) THEN "document"
        ELSE IF \/ endswith(l, <<".","p","p","t">>)
                \/ endswith(l, <<".","p","p","t","x">>) THEN "presentation"
        ELSE "document"

\* mutant: the default tag of line 96 is other
file_type_default_other(final) ==
    LET l == lower(final)
    IN  IF endswith(l, <<".","p","d","f">>) THEN "pdf"
        ELSE IF \/ endswith(l, <<".","j","p","g">>)
                \/ endswith(l, <<".","j","p","e","g">>)
                \/ endswith(l, <<".","p","n","g">>)
                \/ endswith(l, <<".","g","i","f">>) THEN "image"
        ELSE IF \/ endswith(l, <<".","d","o","c">>)
                \/ endswith(l, <<".","d","o","c","x">>) THEN "document"
        ELSE IF \/ endswith(l, <<".","p","p","t">>)
                \/ endswith(l, <<".","p","p","t","x">>) THEN "presentation"
        ELSE "other"

\* lines 95-104
file_type(final) ==
    LET l == lower(final)
    IN  IF endswith(l, <<".","p","d","f">>) THEN "pdf"
        ELSE IF \/ endswith(l, <<".","j","p","g">>)
                \/ endswith(l, <<".","j","p","e","g">>)
                \/ endswith(l, <<".","p","n","g">>)
                \/ endswith(l, <<".","g","i","f">>) THEN "image"
        ELSE IF \/ endswith(l, <<".","d","o","c">>)
                \/ endswith(l, <<".","d","o","c","x">>) THEN "document"
        ELSE IF \/ endswith(l, <<".","p","p","t">>)
                \/ endswith(l, <<".","p","p","t","x">>) THEN "presentation"
        ELSE "document"

\* lines 133-135: every exception raised in the try block, the HTTPException
\* of lines 60 and 69 included, is caught and re-raised with status 500
except_handler(exc) == [status |-> 500, detail |-> exc]

--------------------------------------------------------------------------
(* Request inputs *)

Str_a_pdf == <<"a",".","p","d","f">>
Str_b_HEIC == <<"b",".","H","E","I","C">>
Str_Math == <<"M","a","t","h">>
Str_Physics == <<"P","h","y","s","i","c","s">>

NoContentType == <<>>
NoFilename == <<>>
Str_image_heic == <<"i","m","a","g","e","/","h","e","i","c">>
Str_application_pdf == <<"a","p","p","l","i","c","a","t","i","o","n","/","p","d","f">>

Request(filename, subject, content_type, size) ==
    [filename |-> filename, subject |-> subject, content_type |-> content_type,
     size |-> size]

\* the multipart forms posted to /upload/ in the concurrent specification
Requests ==
    { Request(Str_a_pdf, Str_Math, Str_application_pdf, 10),
      Request(Str_a_pdf, Str_Physics, NoContentType, max_size),
      Request(Str_a_pdf, Str_Math, Str_application_pdf, max_size + 1),
      Request(Str_b_HEIC, Str_Physics, Str_image_heic, 10),
      Request(NoFilename, Str_Math, NoContentType, 10) }

Str_report_pdf == <<"r","e","p","o","r","t",".","p","d","f">>
Str_notes == <<"n","o","t","e","s">>
Str_etc_passwd == <<".",".","/",".",".","/","e","t","c","/","p","a","s","s","w","d">>
Str_dotdot == <<".",".">>
Str_win_path == <<"c",":","\\","x",".","g","i","f">>
Str_stars == <<"*","*">>
Str_blank == <<" "," ">>
Str_S_PDF == <<"S",".","P","D","F">>
Str_slides_pptx == <<"s","l","i","d","e","s",".","p","p","t","x">>
Str_photo_HEIC == <<"p","h","o","t","o",".","H","E","I","C">>
Str_a_tar_gz == <<"a",".","t","a","r",".","g","z">>

Str_x_jpeg == <<"x",".","j","p","e","g">>
Str_d_docx == <<"d",".","d","o","c","x">>

\* the multipart forms posted to /upload/ in the specification of the names
NameRequests ==
    { Request(Str_report_pdf, Str_Math, NoContentType, 10),
      Request(Str_notes, Str_Math, NoContentType, 10),
      Request(Str_etc_passwd, Str_Math, NoContentType, 10),
      Request(Str_dotdot, Str_Math, NoContentType, 10),
      Request(Str_win_path, Str_Math, NoContentType, 10),
      Request(Str_stars, Str_Math, NoContentType, 10),
      Request(Str_blank, Str_Math, NoContentType, 10),
      Request(Str_a_tar_gz, Str_Math, NoContentType, 10) }

\* the multipart forms posted to /upload/ in the specification of the type tags
TypeRequests ==
    { Request(Str_S_PDF, Str_Math, NoContentType, 10),
      Request(Str_x_jpeg, Str_Math, NoContentType, 10),
      Request(Str_d_docx, Str_Math, NoContentType, 10),
      Request(Str_slides_pptx, Str_Math, NoContentType, 10),
      Request(Str_photo_HEIC, Str_Math, Str_image_heic, 10),
      Request(Str_photo_HEIC, Str_Math, NoContentType, 10) }

--------------------------------------------------------------------------
(* State after construction: lines 13-18, an empty table and directory *)

Uploads == 1 .. NumUploads

IdleUpload ==
    [pc |-> "idle", filename |-> <<>>, subject |-> <<>>, content_type |-> <<>>,
     file_size |-> 0, safe_filename |-> <<>>, file_path |-> <<>>, probes |-> 0,
     status |-> 0, detail |-> "", id |-> 0]

NoResponse == [op |-> "none", status |-> 0, logged |-> FALSE, args |-> <<>>, body |-> <<>>]

Init ==
    /\ uploads = [u \in Uploads |-> IdleUpload]
    /\ fs = <<>>
    /\ records = <<>>
    /\ resp = NoResponse

--------------------------------------------------------------------------
(* POST /upload/ *)

\* the call returns: the response of lines 123-131 or the HTTPException of line 135
Return(u, status, detail, id) ==
    [uploads[u] EXCEPT !.pc = "done", !.status = status, !.detail = detail, !.id = id]

\* lines 56-89: up to the await of aiofiles.open
Begin(u, req) ==
    /\ uploads[u].pc = "idle"
    /\ \A v \in Uploads : v < u => uploads[v].pc # "idle"
    /\ LET call == [uploads[u] EXCEPT !.filename = req.filename,
                                      !.subject = req.subject,
                                      !.content_type = req.content_type,
                                      !.file_size = req.size]
           resolved == final_filename(safe_filename(req.filename), fs)
       IN  uploads' =
             [uploads EXCEPT ![u] =
                IF req.filename = <<>>
                THEN [call EXCEPT !.pc = "done",
                                  !.status = except_handler("400: No file provided").status,
                                  !.detail = except_handler("400: No file provided").detail]
                ELSE IF req.size > max_size
                THEN [call EXCEPT !.pc = "done",
                                  !.status = except_handler("400: File too large").status,
                                  !.detail = except_handler("400: File too large").detail]
                ELSE [call EXCEPT !.pc = "open",
                                  !.safe_filename = safe_filename(req.filename),
                                  !.file_path = resolved.name,
                                  !.probes = resolved.probes]]
    /\ UNCHANGED <<fs, records, resp>>

\* mutant: a failed open is passed over and the call goes on to the insert
Open_failure_ignored(u, ok) ==
    /\ uploads[u].pc = "open"
    /\ IF ok
       THEN /\ fs' = [n \in DOMAIN fs \cup {uploads[u].file_path} |->
                        IF n = uploads[u].file_path THEN [data |-> 0, len |-> 0]
                        ELSE fs[n]]
            /\ uploads' = [uploads EXCEPT ![u].pc = "write"]
       ELSE /\ fs' = fs
            /\ uploads' = [uploads EXCEPT ![u].pc = "persist"]
    /\ UNCHANGED <<records, resp>>

\* line 92: aiofiles.open(file_path, 'wb') creates the object or truncates it
Open(u, ok) ==
    /\ uploads[u].pc = "open"
    /\ IF ok
       THEN /\ fs' = [n \in DOMAIN fs \cup {uploads[u].file_path} |->
                        IF n = uploads[u].file_path THEN [data |-> 0, len |-> 0]
                        ELSE fs[n]]
            /\ uploads' = [uploads EXCEPT ![u].pc = "write"]
       ELSE /\ fs' = fs
            /\ uploads' = [uploads EXCEPT ![u] =
                             Return(u, except_handler("OSError").status,
                                    except_handler("OSError").detail, 0)]
    /\ UNCHANGED <<records, resp>>

Max(a, b) == IF a >= b THEN a ELSE b

\* mutant: a failed write opens the file again instead of returning
Write_retry_on_failure(u, ok) ==
    /\ uploads[u].pc = "write"
    /\ IF ok
       THEN /\ fs' = [fs EXCEPT ![uploads[u].file_path] =
                        [data |-> u, len |-> Max(@.len, uploads[u].file_size)]]
            /\ uploads' = [uploads EXCEPT ![u].pc = "persist"]
       ELSE /\ fs' = fs
            /\ uploads' = [uploads EXCEPT ![u].pc = "open"]
    /\ UNCHANGED <<records, resp>>

\* line 93: out_file.write(content) from offset 0 of this call's own handle
Write(u, ok) ==
    /\ uploads[u].pc = "write"
    /\ IF ok
       THEN /\ fs' = [fs EXCEPT ![uploads[u].file_path] =
                        [data |-> u, len |-> Max(@.len, uploads[u].file_size)]]
            /\ uploads' = [uploads EXCEPT ![u].pc = "persist"]
       ELSE /\ fs' = fs
            /\ uploads' = [uploads EXCEPT ![u] =
                             Return(u, except_handler("OSError").status,
                                    except_handler("OSError").detail, 0)]
    /\ UNCHANGED <<records, resp>>

\* created_at has server_default func.now() (database.py line 37): the store's
\* clock at the insert, which has not moved or has moved on since the last insert
Now == IF records = <<>> THEN {1}
       ELSE {records[Len(records)].created_at, records[Len(records)].created_at + 1}

\* lines 111-118
FileRecord(id, u, created_at) ==
    [id |-> id,
     filename |-> uploads[u].file_path,
     subject |-> uploads[u].subject,
     file_path |-> <<"UPLOADS_DIR/">> \o uploads[u].file_path,
     file_url |-> <<"/uploads/">> \o uploads[u].file_path,
     file_size |-> uploads[u].file_size,
     file_type |-> file_type(uploads[u].file_path),
     created_at |-> created_at]

\* mutant: the row of a failed commit stays in the table
failed_insert_keeps_row(rows, row) == Append(rows, row)

\* lines 119-120: what a db.commit() that raises leaves in the table
failed_insert(rows, row) == rows

\* lines 95-131: the file is closed, the type determined, the row committed
Persist(u, ok, now) ==
    /\ uploads[u].pc = "persist"
    /\ LET row == FileRecord(Len(records) + 1, u, now)
       IN  IF ok
           THEN /\ records' = Append(records, row)
                /\ uploads' = [uploads EXCEPT ![u] = Return(u, 200, "", row.id)]
           ELSE /\ records' = failed_insert(records, row)
                /\ uploads' = [uploads EXCEPT ![u] =
                                 Return(u, except_handler("SQLAlchemyError").status,
                                        except_handler("SQLAlchemyError").detail, 0)]
    /\ UNCHANGED <<fs, resp>>

\* lines 95-121 and 133-135: the row is committed at line 120 and the
\* db.refresh(db_file) of line 121, a round trip to the store, raises
PersistRefreshFails(u, now) ==
    /\ uploads[u].pc = "persist"
    /\ records' = Append(records, FileRecord(Len(records) + 1, u, now))
    /\ uploads' = [uploads EXCEPT ![u] =
                     Return(u, except_handler("SQLAlchemyError on refresh").status,
                            except_handler("SQLAlchemyError on refresh").detail, 0)]
    /\ UNCHANGED <<fs, resp>>

\* the calls between their first line and their return
InFlight == {u \in Uploads : uploads[u].pc \notin {"idle", "done"}}

--------------------------------------------------------------------------
(* Query endpoints *)

Min(a, b) == IF a <= b THEN a ELSE b

\* the dict built for one row at lines 145-153 and 185-193
to_dict(row) ==
    [id |-> row.id, filename |-> row.filename, subject |-> row.subject,
     file_url |-> row.file_url, file_size |-> row.file_size,
     file_type |-> row.file_type, created_at |-> row.created_at]

\* ORDER BY created_at DESC over the rows with the ids in S: every order of
\* them with created_at non-increasing; rows of equal created_at come out in
\* any order the store chooses
order_by_created_at_desc(S) ==
    {s \in [1 .. Cardinality(S) -> S] :
        /\ \A i, j \in DOMAIN s : i # j => s[i] # s[j]
        /\ \A i, j \in DOMAIN s :
              i < j => records[s[i]].created_at >= records[s[j]].created_at}

\* .limit(n)
limit(s, n) == SubSeq(s, 1, Min(n, Len(s)))

\* SQL LIKE: % matches any run of characters, _ any one character
RECURSIVE like(_, _)
like(s, pattern) ==
    IF pattern = <<>> THEN s = <<>>
    ELSE IF Head(pattern) = "%"
         THEN like(s, Tail(pattern)) \/ (s # <<>> /\ like(Tail(s), pattern))
    ELSE /\ s # <<>>
         /\ Head(pattern) = "_" \/ Head(pattern) = Head(s)
         /\ like(Tail(s), Tail(pattern))

\* column.ilike(pattern): lower(column) LIKE lower(pattern)
ilike(column, pattern) == like(lower(column), lower(pattern))

Str_All_Subjects == <<"A","l","l"," ","S","u","b","j","e","c","t","s">>
Str_All_Types == <<"A","l","l"," ","T","y","p","e","s">>

\* the row tag as the string the file_type parameter is compared with
type_str(tag) ==
    CASE tag = "pdf" -> <<"p","d","f">>
      [] tag = "image" -> <<"i","m","a","g","e">>
      [] tag = "document" -> <<"d","o","c","u","m","e","n","t">>
      [] tag = "presentation" -> <<"p","r","e","s","e","n","t","a","t","i","o","n">>

\* lines 163-178: the ids of the rows the filters keep; an absent parameter
\* (None) and the empty string are both falsy, written <<>>
search_filter(query, subject, ftype) ==
    {i \in DOMAIN records :
        /\ query # <<>> =>
              \/ ilike(records[i].filename, <<"%">> \o query \o <<"%">>)
              \/ ilike(records[i].subject, <<"%">> \o query \o <<"%">>)
        /\ (subject # <<>> /\ subject # Str_All_Subjects) =>
              records[i].subject = subject
        /\ (ftype # <<>> /\ ftype # Str_All_Types) =>
              type_str(records[i].file_type) = ftype}

\* mutant: listing the recent files deletes the rows it failed to read
get_recent_files_drops_rows(ok) ==
    /\ IF ok
       THEN /\ \E s \in order_by_created_at_desc(DOMAIN records) :
                  resp' = [op |-> "recent", status |-> 200, logged |-> FALSE,
                           args |-> <<>>,
                           body |-> [i \in DOMAIN limit(s, 5) |-> to_dict(records[s[i]])]]
            /\ records' = records
       ELSE /\ resp' = [op |-> "recent", status |-> 200, logged |-> TRUE,
                        args |-> <<>>, body |-> <<>>]
            /\ records' = <<>>
    /\ UNCHANGED <<uploads, fs>>

\* lines 139-158
get_recent_files(ok) ==
    /\ IF ok
       THEN \E s \in order_by_created_at_desc(DOMAIN records) :
               resp' = [op |-> "recent", status |-> 200, logged |-> FALSE,
                        args |-> <<>>,
                        body |-> [i \in DOMAIN limit(s, 5) |-> to_dict(records[s[i]])]]
       ELSE resp' = [op |-> "recent", status |-> 200, logged |-> TRUE,
                     args |-> <<>>, body |-> <<>>]
    /\ UNCHANGED <<uploads, fs, records>>

\* lines 162-198
search_files(query, subject, ftype, ok) ==
    /\ IF ok
       THEN \E s \in order_by_created_at_desc(search_filter(query, subject, ftype)) :
               resp' = [op |-> "search", status |-> 200, logged |-> FALSE,
                        args |-> <<query, subject, ftype>>,
                        body |-> [i \in DOMAIN s |-> to_dict(records[s[i]])]]
       ELSE resp' = [op |-> "search", status |-> 200, logged |-> TRUE,
                     args |-> <<query, subject, ftype>>, body |-> <<>>]
    /\ UNCHANGED <<uploads, fs, records>>

\* lines 202-212
get_stats(ok) ==
    /\ IF ok
       THEN resp' = [op |-> "stats", status |-> 200, logged |-> FALSE, args |-> <<>>,
                     body |-> [total_files |-> Len(records),
                               total_subjects |->
                                  Cardinality({records[i].subject : i \in DOMAIN records}),
                               active_users |-> 1]]
       ELSE resp' = [op |-> "stats", status |-> 200, logged |-> TRUE, args |-> <<>>,
                     body |-> [total_files |-> 0, total_subjects |-> 0,
                               active_users |-> 0]]
    /\ UNCHANGED <<uploads, fs, records>>

\* the (query, subject, file_type) parameters sent to /search/
SearchArgs ==
    { << <<>>, Str_Math, <<>> >>,
      << <<"a">>, <<>>, <<>> >>,
      << <<"M","A","T","H">>, <<>>, Str_All_Types >>,
      << <<"_">>, <<>>, <<>> >>,
      << <<"z">>, Str_All_Subjects, <<>> >>,
      << <<>>, <<>>, <<"p","d","f">> >> }

--------------------------------------------------------------------------
(* Specifications *)

\* concurrent uploads: any interleaving of NumConcurrent handlers at their
\* awaits, with failing writes and inserts
Next ==
    \E u \in Uploads :
        \/ u <= NumConcurrent /\ \E req \in Requests : Begin(u, req)
        \/ \E ok \in BOOLEAN : Open(u, ok)
        \/ \E ok \in BOOLEAN : Write(u, ok)
        \/ \E ok \in BOOLEAN : \E now \in Now : Persist(u, ok, now)
        \/ \E now \in Now : PersistRefreshFails(u, now)

Spec == Init /\ [][Next]_vars

\* uploads handled one after the other, over the raw filenames of NameRequests
NextNames ==
    \E u \in Uploads :
        \/ InFlight = {} /\ \E req \in NameRequests : Begin(u, req)
        \/ Open(u, TRUE)
        \/ Write(u, TRUE)
        \/ \E now \in Now : Persist(u, TRUE, now)

SpecNames == Init /\ [][NextNames]_vars

\* uploads handled one after the other, over the filenames of TypeRequests
NextTypes ==
    \E u \in Uploads :
        \/ InFlight = {} /\ \E req \in TypeRequests : Begin(u, req)
        \/ Open(u, TRUE)
        \/ Write(u, TRUE)
        \/ \E now \in Now : Persist(u, TRUE, now)

SpecTypes == Init /\ [][NextTypes]_vars

\* the multipart forms posted to /upload/ in the specification of the queries
QueryRequests ==
    { Request(Str_a_pdf, Str_Math, Str_application_pdf, 10),
      Request(Str_b_HEIC, Str_Physics, Str_image_heic, 10) }

\* requests handled one after the other: uploads and the query endpoints
NextQuery ==
    \/ \E u \in Uploads :
          \/ InFlight = {} /\ \E req \in QueryRequests : Begin(u, req)
          \/ Open(u, TRUE)
          \/ Write(u, TRUE)
          \/ \E now \in Now : Persist(u, TRUE, now)
    \/ InFlight = {} /\ \E ok \in BOOLEAN : get_recent_files(ok)
    \/ InFlight = {} /\ \E ok \in BOOLEAN : \E a \in SearchArgs :
          search_files(a[1], a[2], a[3], ok)
    \/ InFlight = {} /\ \E ok \in BOOLEAN : get_stats(ok)

SpecQuery == Init /\ [][NextQuery]_vars

\* the multipart forms posted to /upload/ in the specification of termination
FairRequests ==
    { Request(Str_a_pdf, Str_Math, Str_application_pdf, 10),
      Request(Str_dotdot, Str_Math, NoContentType, 10) }

\* concurrent uploads over FairRequests, with failing opens, writes and inserts
NextFair ==
    \E u \in Uploads :
        \/ u <= NumConcurrent /\ \E req \in FairRequests : Begin(u, req)
        \/ \E ok \in BOOLEAN : Open(u, ok)
        \/ \E ok \in BOOLEAN : Write(u, ok)
        \/ \E ok \in BOOLEAN : \E now \in Now : Persist(u, ok, now)
        \/ \E now \in Now : PersistRefreshFails(u, now)

\* lines 92-131 of one call: the steps the event loop resumes after each await
Resume(u) ==
    \/ \E ok \in BOOLEAN : Open(u, ok)
    \/ \E ok \in BOOLEAN : Write(u, ok)
    \/ \E ok \in BOOLEAN : \E now \in Now : Persist(u, ok, now)
    \/ \E now \in Now : PersistRefreshFails(u, now)

\* the event loop resumes every handler whose awaited operation has completed
SpecFair == Init /\ [][NextFair]_vars /\ \A u \in Uploads : WF_vars(Resume(u))

--------------------------------------------------------------------------
(* Claims *)

\* C1: in every reachable state, whatever the interleaving of the uploads'
\* steps (existence probe, file write, record insert), no two FileRecords in
\* the store have the same filename.
C1_UniqueFilenames ==
    \A i, j \in DOMAIN records : i # j => records[i].filename # records[j].filename

\* a raw filename with a path separator or a traversal sequence
HasSeparatorOrTraversal(raw) ==
    \/ \E i \in DOMAIN raw : raw[i] \in {"/", "\\"}
    \/ \E i \in 1 .. Len(raw) - 1 : raw[i] = "." /\ raw[i + 1] = "."

\* C2: for every raw filename that contains a path separator or a traversal
\* sequence, the sanitized name used by upload contains no "/", no "\" and
\* does not start with "..".
C2_SanitizedNameSafe ==
    \A u \in Uploads :
        (uploads[u].safe_filename # <<>> /\ HasSeparatorOrTraversal(uploads[u].filename))
        => /\ \A i \in DOMAIN uploads[u].safe_filename :
                 uploads[u].safe_filename[i] \notin {"/", "\\"}
           /\ ~ ( /\ Len(uploads[u].safe_filename) >= 2
                  /\ SubSeq(uploads[u].safe_filename, 1, 2) = <<".", ".">> )

\* the name is present in the uploads namespace, as the probe sees it
Present(name, dir) == exists(name, dir)

\* '{stem}_{k}.{ext}' with stem and ext split at the last dot of the sanitized
\* name, '{safeName}_{k}' when it has no dot
Candidate(safe, k) ==
    IF \E i \in DOMAIN safe : safe[i] = "."
    THEN LET d == CHOOSE i \in DOMAIN safe :
                     safe[i] = "." /\ \A j \in DOMAIN safe : j > i => safe[j] # "."
         IN  SubSeq(safe, 1, d - 1) \o <<"_">> \o int_to_str(k) \o <<".">>
                \o SubSeq(safe, d + 1, Len(safe))
    ELSE safe \o <<"_">> \o int_to_str(k)

\* the name the collision step has to return over the namespace dir
ExpectedName(safe, dir) ==
    IF ~ Present(safe, dir) THEN safe
    ELSE LET K == 1 .. Cardinality(DOMAIN dir) + 3
             k == CHOOSE n \in K :
                     /\ ~ Present(Candidate(safe, n), dir)
                     /\ \A m \in K : m < n => Present(Candidate(safe, m), dir)
         IN  Candidate(safe, k)

\* C3: the collision step returns the sanitized name unchanged when it is not
\* present in the uploads namespace, and otherwise '{stem}_{k}.{ext}' (or
\* '{safeName}_{k}' without a dot) for the smallest k >= 1 whose candidate is
\* not present.
C3_CollisionStep ==
    [][\A u \in Uploads :
          (uploads[u].pc = "idle" /\ uploads'[u].pc = "open")
          => uploads'[u].file_path = ExpectedName(uploads'[u].safe_filename, fs)]_vars

\* C3 witness: report.pdf was uploaded while report.pdf and report_1.pdf were
\* present, and notes while notes was present
C3_Witness ==
    /\ \E u \in Uploads :
          /\ uploads[u].filename = Str_report_pdf
          /\ uploads[u].file_path = <<"r","e","p","o","r","t","_","2",".","p","d","f">>
    /\ Str_report_pdf \in DOMAIN fs
    /\ <<"r","e","p","o","r","t","_","1",".","p","d","f">> \in DOMAIN fs

\* C4: an upload of max_size + 1 bytes fails with the PayloadTooLarge kind, a
\* 4xx status distinguishable from an infrastructure failure, and writes no
\* file and no record; an upload of exactly max_size bytes is not rejected
\* for its size.
C4_PayloadTooLarge ==
    \A u \in Uploads :
        /\ (uploads[u].pc = "done" /\ uploads[u].file_size > max_size)
           => /\ uploads[u].status \in 400 .. 499
              /\ uploads[u].file_path = <<>>
              /\ uploads[u].id = 0
        /\ (uploads[u].pc # "idle" /\ uploads[u].file_size = max_size
              /\ uploads[u].filename # <<>>)
           => uploads[u].detail # "400: File too large"

\* the step is a call of a query endpoint
QueryCall == UNCHANGED <<uploads, fs, records>>

\* the dicts of the n most recently inserted rows, the last inserted first
MostRecentFirst(n) ==
    [i \in 1 .. Min(n, Len(records)) |-> to_dict(records[Len(records) + 1 - i])]

\* C5: with created_at non-decreasing in insertion order, recent returns the
\* min(limit, N) most recently inserted records in reverse insertion order,
\* the record of the last upload first (A, B, C inserted yields [C, B, A]).
C5_RecentReverseInsertion ==
    [][(QueryCall /\ resp'.op = "recent" /\ ~ resp'.logged)
       => resp'.body = MostRecentFirst(5)]_vars

\* s contains sub as a contiguous run of characters
Contains(s, sub) ==
    \E i \in 0 .. Len(s) - Len(sub) : SubSeq(s, i + 1, i + Len(sub)) = sub

\* the ids of the rows search has to return for these parameters
LiteralMatches(query, subject, ftype) ==
    {i \in DOMAIN records :
        /\ query # <<>> =>
              \/ Contains(lower(records[i].filename), lower(query))
              \/ Contains(lower(records[i].subject), lower(query))
        /\ (subject # <<>> /\ subject # Str_All_Subjects) => records[i].subject = subject
        /\ (ftype # <<>> /\ ftype # Str_All_Types) =>
              type_str(records[i].file_type) = ftype}

\* C6: search returns exactly the records whose filename or subject contains
\* textQuery as a case-insensitive literal substring (no text filter when it
\* is empty), whose subject equals subjectFilter unless absent or 'All
\* Subjects', and whose type equals typeFilter unless absent or 'All Types'.
C6_SearchLiteralSubstring ==
    [][(QueryCall /\ resp'.op = "search" /\ ~ resp'.logged)
       => {resp'.body[i].id : i \in DOMAIN resp'.body}
            = LiteralMatches(resp'.args[1], resp'.args[2], resp'.args[3])]_vars

\* C7: if the insert fails after the file write succeeded, the upload returns
\* an error, no record of that upload is in the store, and the file written
\* for it is still in the uploads namespace.
C7_FailedInsertLeavesOrphan ==
    /\ [][\A u \in Uploads :
            (\E now \in Now : Persist(u, FALSE, now))
            => /\ uploads'[u].pc = "done" /\ uploads'[u].status >= 400
               /\ records' = records
               /\ uploads[u].file_path \in DOMAIN fs']_vars
    /\ [](\A u \in Uploads :
            (uploads[u].pc = "done" /\ uploads[u].detail = "SQLAlchemyError")
            => /\ uploads[u].status >= 400 /\ uploads[u].id = 0
               /\ uploads[u].file_path \in DOMAIN fs
               /\ Len(records) < Cardinality({v \in Uploads : uploads[v].pc = "done"}))

\* C7 witness: an upload whose insert failed, with its file in the namespace
C7_Witness ==
    \E u \in Uploads :
        /\ uploads[u].pc = "done" /\ uploads[u].detail = "SQLAlchemyError"
        /\ uploads[u].file_path \in DOMAIN fs
        /\ fs[uploads[u].file_path].data = u

\* C8: when the Metadata Store fails during recent, search or stats, the
\* caller receives an error, never an empty list or zero counts.
C8_QueryFailureIsError ==
    resp.logged => resp.status >= 400

\* the lower-cased name ends with one of the suffixes
HasSuffix(name, suffixes) == \E x \in suffixes : endswith(lower(name), x)

Suffixes_pdf == { <<".","p","d","f">> }
Suffixes_image == { <<".","j","p","g">>, <<".","j","p","e","g">>, <<".","p","n","g">>,
                    <<".","g","i","f">> }
Suffixes_document == { <<".","d","o","c">>, <<".","d","o","c","x">> }
Suffixes_presentation == { <<".","p","p","t">>, <<".","p","p","t","x">> }

\* C9: the type tag stored on a record is determined by the case-insensitive
\* suffix of its final filename: .pdf -> pdf; .jpg/.jpeg/.png/.gif -> image;
\* .doc/.docx -> document; .ppt/.pptx -> presentation.
C9_TypeBySuffix ==
    \A i \in DOMAIN records :
        /\ HasSuffix(records[i].filename, Suffixes_pdf) => records[i].file_type = "pdf"
        /\ HasSuffix(records[i].filename, Suffixes_image) => records[i].file_type = "image"
        /\ HasSuffix(records[i].filename, Suffixes_document)
              => records[i].file_type = "document"
        /\ HasSuffix(records[i].filename, Suffixes_presentation)
              => records[i].file_type = "presentation"

\* C9 witness: records of S.PDF, of an image and of slides.pptx are stored
C9_Witness ==
    /\ \E i \in DOMAIN records : records[i].filename = Str_S_PDF
    /\ \E i \in DOMAIN records : records[i].filename = Str_slides_pptx
    /\ \E i \in DOMAIN records : HasSuffix(records[i].filename, Suffixes_image)

\* the final filename has none of the recognized suffixes
Unrecognized(name) ==
    ~ HasSuffix(name, Suffixes_pdf \cup Suffixes_image \cup Suffixes_document
                        \cup Suffixes_presentation)

\* the primary component of a content type: the characters before the "/"
Primary(content_type) ==
    SubSeq(content_type, 1,
           (CHOOSE i \in DOMAIN content_type : content_type[i] = "/"
               /\ \A j \in 1 .. i - 1 : content_type[j] # "/") - 1)

\* C10: when the suffix is not a recognized one and a content type is
\* declared, the type tag is the content type's primary component
\* (photo.HEIC with image/heic -> image).
C10_ContentTypeFallback ==
    \A u \in Uploads :
        (uploads[u].status = 200 /\ Unrecognized(uploads[u].file_path)
            /\ uploads[u].content_type # NoContentType)
        => type_str(records[uploads[u].id].file_type) = Primary(uploads[u].content_type)

\* C10 amended: when the suffix is not a recognized one, the type tag is the
\* default 'document', whether or not a content type is declared.
C10_UnrecognizedIsDocument ==
    \A u \in Uploads :
        (uploads[u].status = 200 /\ Unrecognized(uploads[u].file_path))
        => records[uploads[u].id].file_type = "document"

\* C10 witness: photo.HEIC stored once with image/heic declared and once with
\* no content type
C10_Witness ==
    /\ \E u \in Uploads :
          /\ uploads[u].status = 200 /\ uploads[u].filename = Str_photo_HEIC
          /\ uploads[u].content_type = Str_image_heic
    /\ \E u \in Uploads :
          /\ uploads[u].status = 200 /\ uploads[u].filename = Str_photo_HEIC
          /\ uploads[u].content_type = NoContentType

\* the character is alphanumeric, a space, a hyphen, an underscore or a dot
Allowed(c) ==
    c \in Range(LowerLetters) \cup Range(UpperLetters) \cup Range(Digits)
          \cup {" ", "-", "_", "."}

Str_uploaded_file == <<"u","p","l","o","a","d","e","d","_","f","i","l","e">>

\* the call got as far as the sanitization of line 72
Sanitized(u) ==
    /\ uploads[u].pc # "idle"
    /\ uploads[u].filename # <<>>
    /\ uploads[u].file_size <= max_size

\* the raw name with every character that is not allowed replaced by "_"
Underscored(raw) == [i \in DOMAIN raw |-> IF Allowed(raw[i]) THEN raw[i] ELSE "_"]

\* s is the end of t
IsSuffix(s, t) == Len(s) <= Len(t) /\ SubSeq(t, Len(t) - Len(s) + 1, Len(t)) = s

\* C11: sanitization replaces each character that is not alphanumeric,
\* space, hyphen, underscore or dot with one underscore, so that the interior
\* separators of '../../etc/passwd' survive as underscores ('etc_passwd');
\* stated up to a stripped leading traversal prefix, trailing whitespace and
\* the fallback name.
C11_ReplacedByUnderscore ==
    \A u \in Uploads :
        Sanitized(u)
        => \/ uploads[u].safe_filename = Str_uploaded_file
           \/ IsSuffix(uploads[u].safe_filename, rstrip(Underscored(uploads[u].filename)))

\* the allowed characters of the raw name, in their order
RECURSIVE Kept(_)
Kept(raw) ==
    IF raw = <<>> THEN <<>>
    ELSE (IF Allowed(Head(raw)) THEN <<Head(raw)>> ELSE <<>>) \o Kept(Tail(raw))

\* C11 amended: sanitization deletes each character that is not alphanumeric,
\* space, hyphen, underscore or dot, and then trailing spaces: the sanitized
\* name is the allowed characters of the raw name in their order, without
\* the trailing spaces, no underscore taking the place of a deleted character.
C11_DisallowedDeleted ==
    \A u \in Uploads :
        (Sanitized(u) /\ uploads[u].safe_filename # Str_uploaded_file)
        => LET safe == uploads[u].safe_filename
               kept == Kept(uploads[u].filename)
           IN  /\ Len(safe) <= Len(kept)
               /\ SubSeq(kept, 1, Len(safe)) = safe
               /\ \A i \in Len(safe) + 1 .. Len(kept) : kept[i] = " "
               /\ safe[Len(safe)] # " "

\* C11 witness: '../../etc/passwd' and 'c:\x.gif' were sanitized, to
\* '....etcpasswd' and 'cx.gif'
C11_Witness ==
    /\ \E u \in Uploads :
          /\ uploads[u].filename = Str_etc_passwd
          /\ uploads[u].safe_filename
                = <<".",".",".",".","e","t","c","p","a","s","s","w","d">>
    /\ \E u \in Uploads :
          /\ uploads[u].filename = Str_win_path
          /\ uploads[u].safe_filename = <<"c","x",".","g","i","f">>

\* C12: for every raw filename the sanitized name is non-empty, being the
\* fallback 'uploaded_file' when no character survives (only disallowed
\* characters, only whitespace); every persisted record's filename is
\* non-empty.
C12_SanitizedNonEmpty ==
    /\ \A u \in Uploads :
          Sanitized(u)
          => /\ uploads[u].safe_filename # <<>>
             /\ (\A i \in DOMAIN uploads[u].filename :
                    ~ Allowed(uploads[u].filename[i]) \/ uploads[u].filename[i] = " ")
                => uploads[u].safe_filename = Str_uploaded_file
    /\ \A i \in DOMAIN records : records[i].filename # <<>>

\* C12 witness: '**' and a name of two spaces were stored under the fallback
\* name and its first collision candidate
C12_Witness ==
    /\ \E u \in Uploads :
          /\ uploads[u].filename = Str_stars /\ uploads[u].status = 200
          /\ uploads[u].safe_filename = Str_uploaded_file
    /\ \E u \in Uploads :
          /\ uploads[u].filename = Str_blank /\ uploads[u].status = 200
          /\ uploads[u].safe_filename = Str_uploaded_file
    /\ \E i \in DOMAIN records : records[i].filename = Str_uploaded_file
    /\ \E i \in DOMAIN records :
          records[i].filename = Str_uploaded_file \o <<"_", "1">>

\* C13: an upload with an empty raw filename or an empty subject is
\* rejected with the InvalidInput kind, a 4xx status, and writes no file and
\* no record; no persisted record has an empty subject.
C13_InvalidInput ==
    /\ \A u \in Uploads :
          (uploads[u].pc = "done"
              /\ (uploads[u].filename = NoFilename \/ uploads[u].subject = <<>>))
          => /\ uploads[u].status \in 400 .. 499
             /\ uploads[u].file_path = <<>>
             /\ uploads[u].id = 0
    /\ \A i \in DOMAIN records : records[i].subject # <<>>

\* C14: in every reachable state, under any interleaving of uploads and any
\* failure of the file write or of the record insert, the filename of every
\* persisted FileRecord names an object present in the uploads namespace
\* (objects without a record are allowed).
C14_RecordHasObject ==
    \A i \in DOMAIN records : records[i].filename \in DOMAIN fs

\* C14 witness: a record with its object, next to the orphaned object of an
\* upload that failed after its file was created
C14_Witness ==
    /\ \E i \in DOMAIN records : records[i].filename \in DOMAIN fs
    /\ \E n \in DOMAIN fs : \A i \in DOMAIN records : records[i].filename # n
    /\ \E u \in Uploads :
          /\ uploads[u].pc = "done" /\ uploads[u].status = 500
          /\ uploads[u].file_path \in DOMAIN fs

\* the uploads that returned success
Successful == {u \in Uploads : uploads[u].pc = "done" /\ uploads[u].status = 200}

\* C15: each upload that returns success adds exactly one FileRecord and each
\* upload that returns an error adds none; a record once created is never
\* modified or removed; so the total_files of stats is the number of
\* successful uploads so far and total_subjects the number of distinct
\* subjects among them.
C15_OneRecordPerSuccess ==
    /\ [][\A u \in Uploads :
            (uploads[u].pc # "done" /\ uploads'[u].pc = "done")
            => IF uploads'[u].status = 200
               THEN Len(records') = Len(records) + 1
               ELSE records' = records]_vars
    /\ [][\A i \in DOMAIN records :
             i \in DOMAIN records' /\ records'[i] = records[i]]_vars
    /\ [](Len(records) = Cardinality(Successful))
    /\ [](Cardinality({records[i].subject : i \in DOMAIN records})
            = Cardinality({uploads[u].subject : u \in Successful}))

\* C16: recent, search and stats leave the set of FileRecords and the
\* contents of the uploads namespace unchanged (a step that produces a query
\* response changes nothing else), so that a stats call that follows a stats
\* call with no insert in between returns the identical result.
C16_QueriesReadOnly ==
    /\ [][resp' # resp => (records' = records /\ fs' = fs /\ uploads' = uploads)]_vars
    /\ [][(/\ resp.op = "stats" /\ ~ resp.logged
           /\ resp.body.total_files = Len(records)
           /\ resp'.op = "stats" /\ ~ resp'.logged)
          => resp' = resp]_vars

\* C16 witness: a stats response over a store of two records of two subjects,
\* still standing after the call
C16_Witness ==
    /\ resp.op = "stats" /\ ~ resp.logged
    /\ resp.body.total_files = 2 /\ resp.body.total_subjects = 2
    /\ Len(records) = 2 /\ Cardinality(DOMAIN fs) = 2

\* C17: under any interleaving of concurrent uploads no object that holds
\* the bytes of one upload is truncated or rewritten by a later step, and the
\* bytes stored under the name of every successful upload are the bytes that
\* upload submitted.
C17_NoOverwrite ==
    /\ [][\A n \in DOMAIN fs :
            fs[n].data # 0 => (n \in DOMAIN fs' /\ fs'[n].data = fs[n].data)]_vars
    /\ [](\A u \in Uploads :
            (uploads[u].pc = "done" /\ uploads[u].status = 200)
            => /\ uploads[u].file_path \in DOMAIN fs
               /\ fs[uploads[u].file_path].data = u)

\* the entries file_path.exists() reports in the uploads directory
Namespace == {n \in DOMAIN fs \cup {<<".">>, <<".", ".">>} : exists(n, fs)}

\* C18: the probing loop of an upload stops after at most |namespace|+1
\* probes, and under fair scheduling of the concurrent handlers every
\* started upload eventually returns, with success or with an error.
C18_Terminates ==
    /\ [][\A u \in Uploads :
            (uploads[u].pc = "idle" /\ uploads'[u].pc # "idle")
            => /\ uploads'[u].probes <= Cardinality(Namespace) + 1
               /\ uploads'[u].safe_filename \notin {<<".">>, <<".", ".">>}
                  => uploads'[u].probes <= Cardinality(DOMAIN fs) + 1]_vars
    /\ \A u \in Uploads : (uploads[u].pc # "idle") ~> (uploads[u].pc = "done")

\* C18 witness: an upload that probed past two taken names has returned
\* while another upload was started after it
C18_Witness ==
    \E u, v \in Uploads :
        /\ u # v
        /\ uploads[u].pc = "done" /\ uploads[u].probes >= 3
        /\ uploads[v].pc = "done" /\ uploads[v].status = 500

====
